---------------------------- MODULE Spec2Model ----------------------------
(***************************************************************************)
(* FDB Correctness Watcher: the Jira fetcher and normalizer                *)
(* (src/jira_client.py) and the SLA / noise classification, per-assignee   *)
(* aggregation and Slack digest of the dashboard (src/app.py).             *)
(*                                                                         *)
(* Two specifications share the module:                                    *)
(*   FetchSpec  JiraClient.get_fdb_storage_issues: the pagination loop of  *)
(*              fetch_issues against a nondeterministic upstream, then     *)
(*              parse_issues;                                              *)
(*   Spec       one Streamlit session of main(): script runs that load,    *)
(*              classify, filter, aggregate and render the digest.         *)
(*                                                                         *)
(* Encoding of Python / JSON values.  TLC compares only values of one      *)
(* kind, so a missing dict key and None are the strings Absent and None;   *)
(* a JSON object with one attribute of interest ({"name": ..},             *)
(* {"displayName": ..}, {"value": ..}) is the attribute's string, or       *)
(* EmptyObj for an object without the attribute, or NullAttr for an object *)
(* whose attribute is null.                                                *)
(***************************************************************************)
EXTENDS Integers, Sequences, FiniteSets, TLC

Absent   == "<absent>"
None     == "<None>"
EmptyObj == "<{}>"
NullAttr == "<{attr: null}>"

(***************************************************************************)
(* Bounds of the model.                                                    *)
(***************************************************************************)
MaxPages   == 3    \* pages the upstream serves before it must end the listing
MaxPageLen == 1    \* records on one upstream page
MaxRecords == 3    \* records the upstream holds for one query
MaxIssues  == 3    \* records in one fetch result seen by main()

DEFAULT_SLA_DAYS == 14
DEFAULT_DUPLICATE_THRESHOLD == 3

(***************************************************************************)
(* Time.  Instants are whole hours; NowRef is the reference clock reading. *)
(* A timestamp field is [kind, t]: kind "iso" carries the instant t.       *)
(***************************************************************************)
Ts(k, t) == [kind |-> k, t |-> t]
Iso(t)   == Ts("iso", t)
NoTs     == Ts("absent", 0)
NullTs   == Ts("null", 0)
EmptyTs  == Ts("empty", 0)
BadTs    == Ts("malformed", 0)

\* timedelta.days: the delta is normalised so that 0 <= seconds < 86400, which
\* makes .days the floor of the quotient (timedelta(hours=-1).days = -1).
TimedeltaDays(hours) == hours \div 24

\* bool(s) of a timestamp string: None and "" are falsy.
TsTruthy(ts) == ts.kind \in {"iso", "malformed"}

(***************************************************************************)
(* Issue link type names and the test  "duplicate" in name.lower().        *)
(***************************************************************************)
LinkTypeNames == {"Duplicate", "DUPLICATES", "Near-duplicate", "Blocks", "Cloners", ""}

Lower(name) ==
    CASE name = "Duplicate"      -> "duplicate"
      [] name = "DUPLICATES"     -> "duplicates"
      [] name = "Near-duplicate" -> "near-duplicate"
      [] name = "Blocks"         -> "blocks"
      [] name = "Cloners"        -> "cloners"
      [] OTHER                   -> name

ContainsDuplicate(lowered) == lowered \in {"duplicate", "duplicates", "near-duplicate"}

RECURSIVE CountDuplicateLinks(_)
CountDuplicateLinks(issuelinks) ==
    IF issuelinks = <<>> THEN 0
    ELSE (IF ContainsDuplicate(Lower(Head(issuelinks))) THEN 1 ELSE 0)
         + CountDuplicateLinks(Tail(issuelinks))

(***************************************************************************)
(* Raw upstream records.                                                   *)
(***************************************************************************)
RawIssue(key, summary, status, priority, assignee, created, updated, area, links) ==
    [key |-> key, summary |-> summary, status |-> status, priority |-> priority,
     assignee |-> assignee, created |-> created, updated |-> updated,
     customfield_11401 |-> area, issuelinks |-> links]

\* d.get(attr, default) if d else default, for the object encodings above.
ObjAttr(obj, default) ==
    CASE obj \in {Absent, None, EmptyObj} -> default
      [] obj = NullAttr                   -> None
      [] OTHER                            -> obj

\* d.get(k, default) for a scalar: the default only replaces a missing key.
GetOr(v, default) == IF v = Absent THEN default ELSE v

\* d.get(k): a missing key reads as None.
Get(v) == IF v = Absent THEN None ELSE v

DaysSince(now, ts) ==
    IF TsTruthy(ts) THEN TimedeltaDays(now - ts.t) ELSE 0

parse_issue(issue, now) ==
    [key               |-> Get(issue.key),
     summary           |-> GetOr(issue.summary, ""),
     status            |-> ObjAttr(issue.status, "Unknown"),
     priority          |-> ObjAttr(issue.priority, "Unknown"),
     assignee          |-> ObjAttr(issue.assignee, "Unassigned"),
     days_open         |-> DaysSince(now, issue.created),
     days_since_update |-> DaysSince(now, issue.updated),
     area              |-> ObjAttr(issue.customfield_11401, "Unassigned"),
     duplicate_count   |-> CountDuplicateLinks(issue.issuelinks)]

\* datetime.fromisoformat raises ValueError on a malformed string; the
\* exception leaves parse_issues without a result.
ParseFails(issues) ==
    \E i \in DOMAIN issues :
        issues[i].created.kind = "malformed" \/ issues[i].updated.kind = "malformed"

parse_issues(issues, now) == [i \in DOMAIN issues |-> parse_issue(issues[i], now)]

SeqsUpTo(S, n) == UNION {[1..k -> S] : k \in 0..n}

(***************************************************************************)
(* The upstream: tokens, statuses, clock readings and records.             *)
(***************************************************************************)
Tokens == {"tok-a", "tok-b"}
ErrorStatuses == {201, 500}

Hours(days, hours) == 24 * days + hours
NowRef == Hours(40, 0)
Nows == {NowRef, NowRef + 23}

\* Upstream records served to the fetcher.
FetchPool ==
    { RawIssue("FDB-1", "s1", "To Do", "High", "Alice",
               Iso(NowRef - Hours(1, 6)), Iso(NowRef - 4),
               "Storage", <<"Duplicate", "Blocks">>),
      RawIssue("FDB-2", Absent, None, Absent, NullAttr,
               Iso(NowRef + 1), Iso(NowRef + Hours(1, 1)),
               EmptyObj, <<>>),
      RawIssue(Absent, None, EmptyObj, NullAttr, Absent,
               NoTs, EmptyTs,
               Absent, <<"DUPLICATES", "Near-duplicate", "Cloners">>),
      RawIssue("FDB-4", "s4", "Done", "Low", "Bob",
               BadTs, NullTs,
               NullAttr, <<"">>) }

NoError == [kind |-> "none", status |-> 0, body |-> ""]

(***************************************************************************)
(* pandas and Python helpers used by src/app.py.                           *)
(***************************************************************************)
\* Every string the model sorts, in Python's (code point) order.
LexOrder ==
    <<"", "Alice", "All", "Bob", "Carol", "Critical", "Done", "High", "IN PROGRESS",
      "In Progress", "Low", "Recovery", "Storage", "To Do", "Triaged", "Unassigned",
      "Unknown">>

Rank(s) == CHOOSE i \in DOMAIN LexOrder : LexOrder[i] = s

RECURSIVE SortStrings(_)
SortStrings(S) ==
    IF S = {} THEN <<>>
    ELSE LET m == CHOOSE x \in S : \A y \in S : Rank(x) <= Rank(y)
         IN  <<m>> \o SortStrings(S \ {m})

\* sorted(values): comparing None with a str raises TypeError.
SortedRaises(S) == None \in S /\ S # {None}
Sorted(S) == IF None \in S THEN <<None>> ELSE SortStrings(S)

\* df[col].unique(), as a set (every use sorts it).
Unique(df, col) == {df[i][col] : i \in DOMAIN df}

\* One element of  df[col] == scalar : a comparison with None is False throughout.
EqScalar(v, scalar) == scalar # None /\ v = scalar

Count(df, P(_)) == Len(SelectSeq(df, P))

RECURSIVE SumCol(_, _)
SumCol(df, col) == IF df = <<>> THEN 0 ELSE Head(df)[col] + SumCol(Tail(df), col)

RECURSIVE MaxCol(_, _)
MaxCol(df, col) ==
    IF Len(df) = 1 THEN df[1][col]
    ELSE LET m == MaxCol(Tail(df), col)
         IN  IF df[1][col] >= m THEN df[1][col] ELSE m

\* Series.count(): the values that are not null.
CountNonNull(df, col) == Count(df, LAMBDA r : r[col] # None)

\* pd.DataFrame(issues): one row per dict, labelled 0..n-1.
DataFrame(issues) == [i \in DOMAIN issues |-> [index |-> i - 1] @@ issues[i]]

\* df.groupby("assignee"): the distinct keys in sorted order, null keys dropped.
GroupKeys(df) == SortStrings(Unique(df, "assignee") \ {None})
Group(df, g) == SelectSeq(df, LAMBDA r : r.assignee = g)

Perms(n) == {f \in [1..n -> 1..n] : \A i, j \in 1..n : f[i] = f[j] => i = j}

\* sort_values(col, ascending=False): every order the sort may leave ties in.
SortValuesDesc(seq, col) ==
    { [i \in DOMAIN seq |-> seq[p[i]]] : p \in
        { q \in Perms(Len(seq)) :
            \A i, j \in DOMAIN seq : i < j => seq[q[i]][col] >= seq[q[j]][col] } }

(***************************************************************************)
(* SLA and noise classification (apply_sla_rules, main line 307).          *)
(***************************************************************************)
\* Mutant of SlaStatus: the boundary day counts as over.
SlaStatusStrict(days_open, sla_days) == IF days_open < sla_days THEN "under" ELSE "over"

\* Line 202: "under" if x <= sla_days else "over".
SlaStatus(days_open, sla_days) == IF days_open <= sla_days THEN "under" ELSE "over"

apply_sla_rules(df, sla_days) ==
    [i \in DOMAIN df |->
        [sla_limit |-> sla_days, sla_status |-> SlaStatus(df[i].days_open, sla_days)]
        @@ df[i]]

\* Mutant of IsNoisy: a count equal to the threshold is noisy.
IsNoisyInclusive(duplicate_count, duplicate_threshold) ==
    duplicate_count >= duplicate_threshold

\* Line 307: df["duplicate_count"] > duplicate_threshold.
IsNoisy(duplicate_count, duplicate_threshold) == duplicate_count > duplicate_threshold

WithNoisy(df, duplicate_threshold) ==
    [i \in DOMAIN df |->
        [is_noisy |-> IsNoisy(df[i].duplicate_count, duplicate_threshold)] @@ df[i]]

(***************************************************************************)
(* Per-assignee aggregations.                                              *)
(***************************************************************************)
Green == "green"
Yellow == "yellow"
Red == "red"

\* Lines 372-373: the Quick Summary's status counters.
StatsToDo(status) == status = "To Do"
StatsInProgress(status) == status = "In Progress" \/ status = "IN PROGRESS"

\* Lines 368-375, one output row.
StatsRow(rows, g, sla_days) ==
    LET violations == Count(rows, LAMBDA r : r.sla_status = "over")
        oldest == MaxCol(rows, "days_open")
    IN  [assignee         |-> g,
         total_assigned   |-> CountNonNull(rows, "key"),
         sla_violations   |-> violations,
         oldest_days      |-> oldest,
         to_do            |-> Count(rows, LAMBDA r : StatsToDo(r.status)),
         in_progress      |-> Count(rows, LAMBDA r : StatsInProgress(r.status)),
         total_duplicates |-> SumCol(rows, "duplicate_count"),
         sla_indicator    |-> IF violations = 0 THEN Green ELSE Red,
         age_indicator    |-> IF oldest <= sla_days THEN Green
                              ELSE IF oldest <= sla_days * 2 THEN Yellow ELSE Red]

\* Lines 368-384 before the sort.
ParticipantStats(df, sla_days) ==
    LET keys == GroupKeys(df)
    IN  [k \in DOMAIN keys |-> StatsRow(Group(df, keys[k]), keys[k], sla_days)]

\* Lines 525-526: the participant view's status counters.
SummaryToDo(status) == status = "To Do"
SummaryInProgress(status) == status = "In Progress"

\* Lines 523-533, one output row.
SummaryRow(rows, g) ==
    LET violations == Count(rows, LAMBDA r : r.sla_status = "over")
    IN  [assignee         |-> g,
         total            |-> CountNonNull(rows, "key"),
         todo             |-> Count(rows, LAMBDA r : SummaryToDo(r.status)),
         in_progress      |-> Count(rows, LAMBDA r : SummaryInProgress(r.status)),
         sla_violations   |-> violations,
         total_duplicates |-> SumCol(rows, "duplicate_count"),
         sla_indicator    |-> IF violations = 0 THEN Green ELSE Red]

ParticipantSummary(df) ==
    LET keys == GroupKeys(df)
    IN  [k \in DOMAIN keys |-> SummaryRow(Group(df, keys[k]), keys[k])]

(***************************************************************************)
(* The Slack digest (generate_slack_message).  The text is kept as its     *)
(* lines, each line as the values formatted into it.  An issue line also   *)
(* records `row`, the label of the DataFrame row iterrows() yielded.       *)
(***************************************************************************)
\* Mutant of ExceedsWarning: a day count equal to the threshold exceeds it.
ExceedsWarningInclusive(days_open, sla_days) == 5 * days_open >= 4 * sla_days

\* days_open > sla_days * 0.8 (lines 120-121, 142, 154, 185).  The float
\* product compares with an integer exactly as 4 * sla_days / 5 does.
ExceedsWarning(days_open, sla_days) == 5 * days_open > 4 * sla_days

\* int(sla_days * 0.8).
IntWarningThreshold(sla_days) == (4 * sla_days) \div 5

\* Line 119.
OverSla(df) == Count(df, LAMBDA r : r.sla_status = "over")

\* Mutant of WarningCount: breached issues past the warning threshold count too.
WarningCountAnyStatus(df, sla_days) ==
    Count(df, LAMBDA r : ExceedsWarning(r.days_open, sla_days))

\* Lines 121 and 154.
WarningCount(df, sla_days) ==
    Count(df, LAMBDA r : ExceedsWarning(r.days_open, sla_days) /\ r.sla_status = "under")

\* Line 122.
UnderSla(total, over_sla, warning_count) == total - over_sla - warning_count

NoTotals == [given |-> FALSE, total |-> 0, under_sla |-> 0, over_sla |-> 0]

SummaryLine(label, count, has_of, of) ==
    [label |-> label, count |-> count, has_of |-> has_of, of |-> IF has_of THEN of ELSE 0]

\* Mutant of ShowsOf: the summary never refers to the totals.
ShowsOfNever(totals, total) == FALSE

\* Line 126: totals and totals.get("total") != total.
ShowsOf(totals, total) == totals.given /\ totals.total # total

\* Lines 118-137.
Summary(df, sla_days, totals) ==
    LET total == Len(df)
        over_sla == OverSla(df)
        warning_count == WarningCount(df, sla_days)
        under_sla == UnderSla(total, over_sla, warning_count)
        total_duplicates == SumCol(df, "duplicate_count")
        of == ShowsOf(totals, total)
    IN  << SummaryLine("Total Tickets", total, of, totals.total),
           SummaryLine("SLA Breached", over_sla, of, totals.over_sla),
           SummaryLine("SLA Warning", warning_count, FALSE, 0),
           SummaryLine("SLA OK", under_sla, of, totals.under_sla),
           SummaryLine("Total Duplicates", total_duplicates, FALSE, 0) >>

\* Lines 140-142.
WorkSet(df, sla_days, exclude_under_sla) ==
    IF exclude_under_sla
    THEN SelectSeq(df, LAMBDA r : r.sla_status = "over" \/ ExceedsWarning(r.days_open, sla_days))
    ELSE df

Line(kind, indicator, participant, tickets, parts, row) ==
    [kind |-> kind, indicator |-> indicator, participant |-> participant,
     tickets |-> tickets, status_parts |-> parts,
     row |-> IF kind = "issue" THEN row.index ELSE -1,
     key |-> IF kind = "issue" THEN row.key ELSE "",
     priority |-> IF kind = "issue" THEN row.priority ELSE "",
     days_open |-> IF kind = "issue" THEN row.days_open ELSE 0,
     days_since_update |-> IF kind = "issue" THEN row.days_since_update ELSE 0,
     noisy |-> IF kind = "issue" THEN row.noisy ELSE FALSE,
     dup_str |-> IF kind = "issue" THEN row.dup_str ELSE ""]

NoRow == [index |-> -1]
NoIssuesLine == Line("no_issues", "", "", 0, <<>>, NoRow)
PerParticipantLine == Line("per_participant", "", "", 0, <<>>, NoRow)
BlankLine == Line("blank", "", "", 0, <<>>, NoRow)

\* Mutant of IssueIndicator: the warning test comes before the breach test.
IssueIndicatorWarningFirst(sla_status, days_open, sla_days) ==
    IF ExceedsWarning(days_open, sla_days) THEN Yellow
    ELSE IF sla_status = "over" THEN Red
    ELSE Green

\* Lines 183-188.
IssueIndicator(sla_status, days_open, sla_days) ==
    IF sla_status = "over" THEN Red
    ELSE IF ExceedsWarning(days_open, sla_days) THEN Yellow
    ELSE Green

\* Line 190.
DigestNoisy(duplicate_count, duplicate_threshold) == duplicate_count > duplicate_threshold

\* Lines 174-194.
IssueLine(row, sla_days, duplicate_threshold) ==
    LET is_noisy == DigestNoisy(row.duplicate_count, duplicate_threshold)
    IN  Line("issue", IssueIndicator(row.sla_status, row.days_open, sla_days), "", 0, <<>>,
             [index |-> row.index, key |-> row.key, priority |-> row.priority,
              days_open |-> row.days_open, days_since_update |-> row.days_since_update,
              noisy |-> is_noisy,
              dup_str |-> IF is_noisy THEN "loud dups"
                          ELSE IF row.duplicate_count > 0 THEN "dups" ELSE ""])

\* Lines 156-161.
ParticipantIndicator(breached, warnings) ==
    IF breached > 0 THEN Red ELSE IF warnings > 0 THEN Yellow ELSE Green

\* Lines 152-172.
HeaderLine(participant, p_df, sla_days, exclude_under_sla) ==
    LET breached == OverSla(p_df)
        warnings == WarningCount(p_df, sla_days)
        ok_count == Len(p_df) - breached - warnings
        parts == (IF breached > 0 THEN <<[n |-> breached, what |-> "breached"]>> ELSE <<>>)
                 \o (IF warnings > 0 THEN <<[n |-> warnings, what |-> "warning"]>> ELSE <<>>)
                 \o (IF ok_count > 0 /\ ~exclude_under_sla
                     THEN <<[n |-> ok_count, what |-> "ok"]>> ELSE <<>>)
    IN  Line("header", ParticipantIndicator(breached, warnings), participant,
             Len(p_df), parts, NoRow)

\* Line 152: work_df[work_df["assignee"] == participant].
ParticipantRows(work_df, participant) ==
    SelectSeq(work_df, LAMBDA r : EqScalar(r.assignee, participant))

\* Lines 151-196 for one participant.
Block(work_df, participant, sla_days, exclude_under_sla, duplicate_threshold) ==
    LET p_df == ParticipantRows(work_df, participant)
    IN  <<HeaderLine(participant, p_df, sla_days, exclude_under_sla)>>
        \o [i \in DOMAIN p_df |-> IssueLine(p_df[i], sla_days, duplicate_threshold)]
        \o <<BlankLine>>

RECURSIVE Blocks(_, _, _, _, _)
Blocks(work_df, participants, sla_days, exclude_under_sla, duplicate_threshold) ==
    IF participants = <<>> THEN <<>>
    ELSE Block(work_df, Head(participants), sla_days, exclude_under_sla, duplicate_threshold)
         \o Blocks(work_df, Tail(participants), sla_days, exclude_under_sla,
                   duplicate_threshold)

\* Lines 111-115.
Legend(sla_days, duplicate_threshold) ==
    [warning_over |-> IntWarningThreshold(sla_days), sla_days |-> sla_days,
     breached_over |-> 14, noisy_over |-> duplicate_threshold]

NoDigest ==
    [raised |-> FALSE, legend |-> Legend(0, 0), summary |-> <<>>, body |-> <<>>]

generate_slack_message(df, sla_days, exclude_under_sla, totals, duplicate_threshold) ==
    LET work_df == WorkSet(df, sla_days, exclude_under_sla)
        participants == Unique(work_df, "assignee")
    IN  IF Len(work_df) = 0
        THEN [raised |-> FALSE, legend |-> Legend(sla_days, duplicate_threshold),
              summary |-> Summary(df, sla_days, totals), body |-> <<NoIssuesLine>>]
        ELSE IF SortedRaises(participants)
        THEN [raised |-> TRUE, legend |-> Legend(0, 0), summary |-> <<>>, body |-> <<>>]
        ELSE [raised |-> FALSE, legend |-> Legend(sla_days, duplicate_threshold),
              summary |-> Summary(df, sla_days, totals),
              body |-> <<PerParticipantLine>>
                       \o Blocks(work_df, Sorted(participants), sla_days,
                                 exclude_under_sla, duplicate_threshold)]

(***************************************************************************)
(* JiraClient.get_fdb_storage_issues against the upstream.                 *)
(***************************************************************************)
VARIABLES
    fpc,              \* position in get_fdb_storage_issues
    all_issues,       \* fetch_issues: the accumulator
    next_page_token,  \* fetch_issues: token of the last response, None at start
    requests,         \* history: nextPageToken of every POST sent (Absent: none in payload)
    responses,        \* history: every response received
    result,           \* value returned by get_fdb_storage_issues (when fpc = "returned")
    error             \* exception raised out of get_fdb_storage_issues

fetchVars == <<fpc, all_issues, next_page_token, requests, responses, result, error>>

(***************************************************************************)
(* main(): one Streamlit session.  Every widget interaction reruns the     *)
(* script from the top; the sidebar's widget values and the cache of       *)
(* load_issues outlive a run, the script's locals do not.                  *)
(***************************************************************************)
VARIABLES
    pc,                  \* position of the running script in main()
    jql,                 \* query of the selected view, None when none is selected
    sla_days,            \* "Days Open Threshold" input
    duplicate_threshold, \* "Duplicate Count Threshold" input
    cache,               \* st.cache_data entry of load_issues
    issues,              \* what load_issues returned
    df,                  \* the working DataFrame
    selected_area,       \* "Area" selectbox
    selected_statuses,   \* "Status" multiselect
    totals,              \* total_all, total_under_sla_all, total_over_sla_all
    participant_stats,   \* Quick Summary table
    participant_summary, \* "By Participant" table
    exclude_under_sla,   \* digest checkbox
    slack_msg,           \* the digest
    classification       \* history: "done" once a finished run has classified the
                         \* cached issues, "redo" while a run classifies them again
                         \* under another sla_days, else "none"

mainVars == <<pc, jql, sla_days, duplicate_threshold, cache, issues, df, selected_area,
              selected_statuses, totals, participant_stats, participant_summary,
              exclude_under_sla, slack_msg, classification>>

vars == <<fetchVars, mainVars>>

\* What the upstream may answer to the n-th request, having served `served`
\* records so far: a page (200) or a refusal.
UpstreamResponses(n, served) ==
    { [status |-> 200, issues |-> page, token |-> token, body |-> "json"] :
        page \in {p \in SeqsUpTo(FetchPool, MaxPageLen) : served + Len(p) <= MaxRecords},
        token \in {None} \cup (IF n < MaxPages THEN Tokens ELSE {}) }
    \cup
    { [status |-> status, issues |-> <<>>, token |-> None, body |-> "denied"] :
        status \in ErrorStatuses }

\* bool(next_page_token), lines 53 and 66.
Truthy(token) == token \notin {None, Absent, ""}

\* Lines 53-54: the token put in the payload (Absent: no nextPageToken key).
PayloadToken(token) == IF Truthy(token) THEN token ELSE Absent

\* Lines 48-56: build the payload and POST it.
SendRequest ==
    /\ fpc = "loop"
    /\ requests' = Append(requests, PayloadToken(next_page_token))
    /\ fpc' = "await"
    /\ UNCHANGED <<all_issues, next_page_token, responses, result, error>>
    /\ UNCHANGED mainVars

\* Mutant of StatusRaises: only the 4xx and 5xx statuses raise.
StatusRaisesOnErrorsOnly(status) == status >= 400

\* Line 58: response.status_code != 200.
StatusRaises(status) == status # 200

\* Mutant of LoopExits: the loop also stops after two pages.
LoopExitsAtCap(token) == ~Truthy(token) \/ Len(responses) >= 1

\* Lines 66-67: if not next_page_token: break.
LoopExits(token) == ~Truthy(token)

\* Mutant of Extend: the page replaces the accumulator.
ExtendOverwrites(acc, page) == page

\* Line 63: all_issues.extend(issues).
Extend(acc, page) == acc \o page

\* Lines 56-67: the response arrives and is handled.
Receive ==
    /\ fpc = "await"
    /\ \E resp \in UpstreamResponses(Len(requests), Len(all_issues)) :
          /\ responses' = Append(responses, resp)
          /\ IF StatusRaises(resp.status)
             THEN /\ fpc' = "raised"
                  /\ error' = [kind |-> "http", status |-> resp.status, body |-> resp.body]
                  /\ UNCHANGED <<all_issues, next_page_token>>
             ELSE /\ all_issues' = Extend(all_issues, resp.issues)
                  /\ next_page_token' = resp.token
                  /\ fpc' = IF LoopExits(resp.token) THEN "fetched" ELSE "loop"
                  /\ UNCHANGED error
    /\ UNCHANGED <<requests, result>>
    /\ UNCHANGED mainVars

\* Line 127: parse_issues over what fetch_issues returned (line 69).
ParseFetched ==
    /\ fpc = "fetched"
    /\ \E now \in Nows :
          IF ParseFails(all_issues)
          THEN /\ fpc' = "raised"
               /\ error' = [kind |-> "parse", status |-> 0, body |-> ""]
               /\ UNCHANGED result
          ELSE /\ fpc' = "returned"
               /\ result' = parse_issues(all_issues, now)
               /\ UNCHANGED error
    /\ UNCHANGED <<all_issues, next_page_token, requests, responses>>
    /\ UNCHANGED mainVars

FetchNext == SendRequest \/ Receive \/ ParseFetched

\* Values entered in the two number inputs (min_value=1).
SlaDaysChoices == {4, 5, DEFAULT_SLA_DAYS}
DupThresholdChoices == {2, DEFAULT_DUPLICATE_THRESHOLD}

\* Raw records behind the results load_issues returns to main().
MainPool ==
    { RawIssue("FDB-1", "s1", "To Do", "High", "Alice",
               Iso(NowRef - Hours(4, 1)), Iso(NowRef - Hours(1, 0)),
               "Storage", <<"Duplicate", "DUPLICATES", "Blocks">>),
      RawIssue("FDB-2", "s2", "In Progress", "High", "Alice",
               Iso(NowRef - Hours(5, 0)), Iso(NowRef - 2),
               "Recovery", <<"Duplicate", "Duplicate", "Near-duplicate">>),
      RawIssue("FDB-3", Absent, "IN PROGRESS", None, Absent,
               Iso(NowRef - Hours(6, 23)), NoTs,
               "Storage", <<>>),
      RawIssue(Absent, "s4", "To Do", "High", "Bob",
               Iso(NowRef - Hours(15, 0)), Iso(NowRef - Hours(2, 0)),
               Absent, <<"Duplicate", "Duplicate", "DUPLICATES", "Duplicate">>),
      RawIssue("FDB-5", "s5", "To Do", "Low", NullAttr,
               Iso(NowRef - Hours(6, 0)), Iso(NowRef - 1),
               "Storage", <<"Cloners">>) }

NoCache == [hit |-> FALSE, value |-> <<>>]

Terminal == {"no_view", "fetch_failed", "empty", "rendered", "crashed"}
ClassifiedEnd == {"rendered", "crashed"}

LocalsInit ==
    /\ issues = <<>>
    /\ df = <<>>
    /\ selected_area = "All"
    /\ selected_statuses = {}
    /\ totals = NoTotals
    /\ participant_stats = <<>>
    /\ participant_summary = <<>>
    /\ exclude_under_sla = FALSE
    /\ slack_msg = NoDigest

\* Lines 287-289.
SelectView ==
    /\ pc = "start"
    /\ pc' = IF jql = None THEN "no_view" ELSE "loading"
    /\ UNCHANGED <<jql, sla_days, duplicate_threshold, cache, issues, df, selected_area,
                   selected_statuses, totals, participant_stats, participant_summary,
                   exclude_under_sla, slack_msg, classification>>
    /\ UNCHANGED fetchVars

\* Mutant of AfterLoad: an empty result is classified like any other.
AfterLoadNeverEmpty(loaded) == "loaded"

\* Lines 300-303: "if not issues".
AfterLoad(loaded) == IF Len(loaded) = 0 THEN "empty" ELSE "loaded"

\* Mutant of OnFetchError: a failed fetch is shown as an empty result.
OnFetchErrorAsEmpty == "empty"

\* Lines 294-298: except Exception: st.error(...), return.
OnFetchError == "fetch_failed"

\* Lines 291-303 with load_issues (205-208): the cached value, or what
\* get_fdb_storage_issues returns or raises.
LoadIssues ==
    /\ pc = "loading"
    /\ IF cache.hit
       THEN /\ issues' = cache.value
            /\ pc' = AfterLoad(cache.value)
            /\ UNCHANGED cache
       ELSE \/ /\ pc' = OnFetchError
               /\ UNCHANGED <<issues, cache>>
            \/ \E raws \in SeqsUpTo(MainPool, MaxIssues) :
                  LET parsed == parse_issues(raws, NowRef)
                  IN  /\ issues' = parsed
                      /\ cache' = [hit |-> TRUE, value |-> parsed]
                      /\ pc' = AfterLoad(parsed)
    /\ UNCHANGED <<jql, sla_days, duplicate_threshold, df, selected_area,
                   selected_statuses, totals, participant_stats, participant_summary,
                   exclude_under_sla, slack_msg, classification>>
    /\ UNCHANGED fetchVars

\* Lines 305-307.
Classify ==
    /\ pc = "loaded"
    /\ df' = WithNoisy(apply_sla_rules(DataFrame(issues), sla_days), duplicate_threshold)
    /\ pc' = "classified"
    /\ UNCHANGED <<jql, sla_days, duplicate_threshold, cache, issues, selected_area,
                   selected_statuses, totals, participant_stats, participant_summary,
                   exclude_under_sla, slack_msg, classification>>
    /\ UNCHANGED fetchVars

\* Lines 318-319.
FilterStatuses(frame, statuses) ==
    IF statuses # {} THEN SelectSeq(frame, LAMBDA r : r.status \in statuses) ELSE frame

\* Lines 325-326.
FilterArea(frame, area) ==
    IF area # "All" THEN SelectSeq(frame, LAMBDA r : EqScalar(r.area, area)) ELSE frame

\* Lines 309-326.
ApplyFilters ==
    /\ pc = "classified"
    /\ LET areas == Unique(df, "area")
           statuses == Unique(df, "status")
       IN  IF SortedRaises(areas) \/ SortedRaises(statuses)
           THEN /\ pc' = "crashed"
                /\ UNCHANGED <<df, selected_area, selected_statuses, totals>>
           ELSE \E area \in {"All"} \cup areas, chosen \in SUBSET statuses :
                   LET by_status == FilterStatuses(df, chosen)
                   IN  /\ selected_area' = area
                       /\ selected_statuses' = chosen
                       /\ totals' = [given |-> TRUE,
                                     total |-> Len(by_status),
                                     under_sla |-> Count(by_status,
                                                     LAMBDA r : r.sla_status = "under"),
                                     over_sla |-> OverSla(by_status)]
                       /\ df' = FilterArea(by_status, area)
                       /\ pc' = "filtered"
    /\ UNCHANGED <<jql, sla_days, duplicate_threshold, cache, issues, participant_stats,
                   participant_summary, exclude_under_sla, slack_msg, classification>>
    /\ UNCHANGED fetchVars

\* Lines 386 and 531: frame[col] = frame.apply(f, axis=1).  On a frame with
\* rows apply returns a Series.  On a frame without rows the result depends
\* on the installed pandas: a Series again, or a copy of the empty frame,
\* which the column assignment rejects with ValueError.  The repository pins
\* no version, so either may happen.
ApplyRowsOutcomes(frame) == IF frame = <<>> THEN {"series", "frame"} ELSE {"series"}

\* Lines 355-437: the Quick Summary, then the tabs; render_participant_view
\* sorts the participants (line 518) before it aggregates.  Its selectbox is
\* left at "All" and the widgets of the other two tabs are not modelled.
Summarise ==
    /\ pc = "filtered"
    /\ \E stats \in SortValuesDesc(ParticipantStats(df, sla_days), "total_assigned") :
       \E applied \in ApplyRowsOutcomes(stats) :
          /\ participant_stats' = stats
          /\ IF applied = "frame" \/ SortedRaises(Unique(df, "assignee"))
             THEN /\ pc' = "crashed"
                  /\ UNCHANGED participant_summary
             ELSE /\ participant_summary' = ParticipantSummary(df)
                  /\ pc' = "summarised"
    /\ UNCHANGED <<jql, sla_days, duplicate_threshold, cache, issues, df, selected_area,
                   selected_statuses, totals, exclude_under_sla, slack_msg, classification>>
    /\ UNCHANGED fetchVars

\* Lines 445-446: totals if is_filtered else None.
DigestTotals(frame, all_totals) ==
    IF Len(frame) # all_totals.total THEN all_totals ELSE NoTotals

\* Lines 441-446.
RenderDigest ==
    /\ pc = "summarised"
    /\ \E exclude \in BOOLEAN :
          LET msg == generate_slack_message(df, sla_days, exclude,
                                            DigestTotals(df, totals), duplicate_threshold)
          IN  /\ exclude_under_sla' = exclude
              /\ slack_msg' = msg
              /\ pc' = IF msg.raised THEN "crashed" ELSE "rendered"
    /\ UNCHANGED <<jql, sla_days, duplicate_threshold, cache, issues, df, selected_area,
                   selected_statuses, totals, participant_stats, participant_summary,
                   classification>>
    /\ UNCHANGED fetchVars

\* The script returns (lines 289, 298, 303), ends, or dies of an exception:
\* its locals are gone and the session waits for the user.
EndRun ==
    /\ pc \in Terminal
    /\ pc' = "idle"
    /\ classification' = IF pc \in ClassifiedEnd THEN "done" ELSE "none"
    /\ issues' = <<>>
    /\ df' = <<>>
    /\ selected_area' = "All"
    /\ selected_statuses' = {}
    /\ totals' = NoTotals
    /\ participant_stats' = <<>>
    /\ participant_summary' = <<>>
    /\ exclude_under_sla' = FALSE
    /\ slack_msg' = NoDigest
    /\ UNCHANGED <<jql, sla_days, duplicate_threshold, cache>>
    /\ UNCHANGED fetchVars

\* A widget of the sidebar changes, or "Refresh Data" clears the cache
\* (lines 280-282): the script reruns from the top.
Rerun ==
    /\ pc = "idle"
    /\ \E view \in {None, "JQL"}, days \in SlaDaysChoices,
          threshold \in DupThresholdChoices, refresh \in BOOLEAN :
          /\ jql' = view
          /\ sla_days' = days
          /\ duplicate_threshold' = threshold
          /\ cache' = IF refresh THEN NoCache ELSE cache
          /\ classification' = IF /\ classification = "done"
                                  /\ ~refresh
                                  /\ view # None
                                  /\ days # sla_days
                               THEN "redo" ELSE "none"
    /\ pc' = "start"
    /\ UNCHANGED <<issues, df, selected_area, selected_statuses, totals, participant_stats,
                   participant_summary, exclude_under_sla, slack_msg>>
    /\ UNCHANGED fetchVars

MainNext ==
    \/ SelectView \/ LoadIssues \/ Classify \/ ApplyFilters \/ Summarise \/ RenderDigest
    \/ EndRun \/ Rerun

\* The fetcher on its own: main() has not run.
FetchSpecInit ==
    /\ fpc = "loop"
    /\ all_issues = <<>>
    /\ next_page_token = None
    /\ requests = <<>>
    /\ responses = <<>>
    /\ result = <<>>
    /\ error = NoError
    /\ pc = "start"
    /\ jql = None
    /\ sla_days = DEFAULT_SLA_DAYS
    /\ duplicate_threshold = DEFAULT_DUPLICATE_THRESHOLD
    /\ cache = NoCache
    /\ classification = "none"
    /\ LocalsInit

FetchSpec == FetchSpecInit /\ [][FetchNext]_vars

\* The session of main(): the fetcher is summarised by LoadIssues.
Init ==
    /\ fpc = "idle"
    /\ all_issues = <<>>
    /\ next_page_token = None
    /\ requests = <<>>
    /\ responses = <<>>
    /\ result = <<>>
    /\ error = NoError
    /\ pc = "start"
    /\ jql = None
    /\ sla_days = DEFAULT_SLA_DAYS
    /\ duplicate_threshold = DEFAULT_DUPLICATE_THRESHOLD
    /\ cache = NoCache
    /\ classification = "none"
    /\ LocalsInit

Next == MainNext
Spec == Init /\ [][Next]_vars

(***************************************************************************)
(* Properties of the fetcher (FetchSpec).                                  *)
(***************************************************************************)
RECURSIVE ConcatPages(_)
ConcatPages(resps) ==
    IF resps = <<>> THEN <<>> ELSE Head(resps).issues \o ConcatPages(Tail(resps))

Last(seq) == seq[Len(seq)]

\* C1: the first request carries no token, each later request carries the
\* token of the previous response, no request follows a response without a
\* token, and when every page succeeded fetch_issues returns the
\* concatenation, in request order, of the records of all pages up to and
\* including the first page without a token.
C1_FetchConcatenatesPages ==
    /\ Len(requests) >= 1 => requests[1] = Absent
    /\ \A i \in 2..Len(requests) : requests[i] = responses[i - 1].token
    /\ \A i \in DOMAIN responses : responses[i].token = None => Len(requests) = i
    /\ fpc \in {"fetched", "returned"} =>
          /\ \A i \in DOMAIN responses : responses[i].status = 200
          /\ Last(responses).token = None
          /\ \A i \in 1..(Len(responses) - 1) : responses[i].token \in Tokens
          /\ all_issues = ConcatPages(responses)

C1_Witness ==
    /\ fpc = "fetched"
    /\ Len(responses) = 3
    /\ Len(all_issues) = 3
    /\ all_issues[1] # all_issues[2]
    /\ requests[2] # requests[3]

\* C2: a non-200 response, at the first page or after successful pages, ends
\* the fetch in an error that carries its status code and body; nothing is
\* returned to the caller and no further request is sent.
C2_ErrorAbortsFetch ==
    \A i \in DOMAIN responses :
        responses[i].status # 200 =>
            /\ fpc = "raised"
            /\ error = [kind |-> "http", status |-> responses[i].status,
                        body |-> responses[i].body]
            /\ result = <<>>
            /\ i = Len(responses)
            /\ Len(requests) = i

C2_Witness ==
    /\ fpc = "raised"
    /\ error.kind = "http"
    /\ error.status = 201
    /\ Len(responses) = 3
    /\ Len(all_issues) = 2

\* C3: the loop has no page cap: handling a response leaves the loop exactly
\* when the response is a non-200 (error) or a 200 without a token (return);
\* after a 200 with a token the next page is requested, whatever the number
\* of pages already fetched.
C3_NoPageCap ==
    /\ [][fpc = "await" =>
            LET resp == Last(responses')
            IN  /\ fpc' = "loop" <=> (resp.status = 200 /\ resp.token \in Tokens)
                /\ fpc' = "fetched" <=> (resp.status = 200 /\ resp.token = None)
                /\ fpc' = "raised" <=> resp.status # 200]_vars
    /\ [][fpc = "loop" =>
            /\ fpc' = "await"
            /\ requests' = Append(requests, IF responses = <<>> THEN Absent
                                           ELSE Last(responses).token)]_vars
    /\ [](fpc = "loop" => ENABLED SendRequest)

C3_Witness ==
    /\ fpc = "await"
    /\ Len(requests) = MaxPages
    /\ Len(responses) = MaxPages - 1

\* C6: every record parse_issues produces has days_open >= 0,
\* days_since_update >= 0 and duplicate_count >= 0, also for timestamps later
\* than the current instant.
C6_DaysNeverNegative ==
    fpc = "returned" =>
        \A i \in DOMAIN result :
            /\ result[i].days_open >= 0
            /\ result[i].days_since_update >= 0
            /\ result[i].duplicate_count >= 0

\* C7: no two records returned by get_fdb_storage_issues have the same key,
\* whatever the upstream pages contain.
C7_KeysUnique ==
    fpc = "returned" =>
        \A i, j \in DOMAIN result : i # j => result[i].key # result[j].key

(***************************************************************************)
(* Properties of classification, aggregation and the digest (Spec).        *)
(***************************************************************************)
IssueLines(msg) == {l \in DOMAIN msg.body : msg.body[l].kind = "issue"}

RowLabelled(frame, label) == frame[CHOOSE i \in DOMAIN frame : frame[i].index = label]

\* C4: after apply_sla_rules, also when the cached issues are classified
\* again under another sla_days, every record has sla_limit = the sla_days of
\* the latest call, and sla_status = over iff days_open > sla_limit.
C4_SlaStatusMatchesLimit ==
    \A i \in DOMAIN df :
        /\ df[i].sla_limit = sla_days
        /\ df[i].sla_status \in {"under", "over"}
        /\ df[i].sla_status = "over" <=> df[i].days_open > df[i].sla_limit

C4_Witness ==
    /\ pc = "classified"
    /\ classification = "redo"
    /\ \E i \in DOMAIN df : df[i].days_open = df[i].sla_limit /\ df[i].sla_status = "under"
    /\ \E i \in DOMAIN df : df[i].sla_status = "over"

\* C5: is_noisy holds iff duplicate_count > duplicate_threshold, and every
\* issue line of the digest carries the noisy marking iff the record it
\* renders has is_noisy.
C5_NoisyIffAboveThreshold ==
    /\ \A i \in DOMAIN df :
          df[i].is_noisy <=> df[i].duplicate_count > duplicate_threshold
    /\ pc = "rendered" =>
          \A l \in IssueLines(slack_msg) :
              LET line == slack_msg.body[l]
              IN  /\ \E i \in DOMAIN df : df[i].index = line.row
                  /\ line.noisy <=> RowLabelled(df, line.row).is_noisy
                  /\ line.dup_str = "loud dups" <=> RowLabelled(df, line.row).is_noisy

C5_Witness ==
    /\ pc = "rendered"
    /\ \E l \in IssueLines(slack_msg) : slack_msg.body[l].noisy
    /\ \E l \in IssueLines(slack_msg) :
          /\ ~slack_msg.body[l].noisy
          /\ RowLabelled(df, slack_msg.body[l].row).duplicate_count = duplicate_threshold

\* C8: the per-assignee totals of both aggregations add up to the number of
\* records of the classified set.
C8_TotalsReconcile ==
    pc = "summarised" =>
        /\ SumCol(participant_stats, "total_assigned") = Len(df)
        /\ SumCol(participant_summary, "total") = Len(df)

\* C9: in every digest the summary counts partition the input set: breached,
\* warning and ok are the sizes of three disjoint classes of issues, each
\* >= 0, and they add up to the total.
C9_SummaryCountsPartition ==
    pc = "rendered" =>
        LET s == slack_msg.summary
            breached == {i \in DOMAIN df : df[i].sla_status = "over"}
            warning == {i \in DOMAIN df : /\ df[i].sla_status = "under"
                                          /\ 5 * df[i].days_open > 4 * sla_days}
            ok == (DOMAIN df \ breached) \ warning
        IN  /\ s[1].count = Len(df)
            /\ s[2].count = Cardinality(breached)
            /\ s[3].count = Cardinality(warning)
            /\ s[4].count = Cardinality(ok)
            /\ s[2].count >= 0 /\ s[3].count >= 0 /\ s[4].count >= 0
            /\ s[2].count + s[3].count + s[4].count = s[1].count

C9_Witness ==
    /\ pc = "rendered"
    /\ slack_msg.summary[2].count > 0
    /\ slack_msg.summary[3].count > 0
    /\ slack_msg.summary[4].count > 0

\* C10: with exclude_under_sla the digest lists exactly the issues that are
\* over or have days_open > sla_days * 0.8; when there are none, its body is
\* the single "no issues" line.
C10_ExcludeListsExactlyFlagged ==
    (pc = "rendered" /\ exclude_under_sla) =>
        LET flagged == {df[i].index : i \in {j \in DOMAIN df :
                            \/ df[j].sla_status = "over"
                            \/ 5 * df[j].days_open > 4 * sla_days}}
            listed == {slack_msg.body[l].row : l \in IssueLines(slack_msg)}
        IN  /\ listed = flagged
            /\ flagged = {} <=> slack_msg.body = <<NoIssuesLine>>


\* Rows generate_slack_message works on: all of df, or with exclude_under_sla
\* the rows that are over or past the warning threshold.
Worked == {i \in DOMAIN df : \/ ~exclude_under_sla
                              \/ df[i].sla_status = "over"
                              \/ 5 * df[i].days_open > 4 * sla_days}

Headers(msg) == {l \in DOMAIN msg.body : msg.body[l].kind = "header"}

\* The header line of the block that line l of the digest belongs to.
HeaderOf(msg, l) ==
    msg.body[CHOOSE h \in Headers(msg) :
                /\ h < l
                /\ \A g \in Headers(msg) : g < l => g <= h]

PositionOf(frame, label) == CHOOSE i \in DOMAIN frame : frame[i].index = label

\* C11: in the digest the assignee blocks are in lexicographic order of the
\* assignee name, one block per distinct assignee of the working set; every
\* issue of the working set is on exactly one issue line, in the block of its
\* assignee, and the lines of a block are in the relative order of the input.
C11_BlocksSortedLinesInInputOrder ==
    (pc = "rendered" /\ Worked # {}) =>
        LET body == slack_msg.body
            lines == IssueLines(slack_msg)
        IN  /\ \A i \in Worked :
                  Cardinality({l \in lines : body[l].row = df[i].index}) = 1
            /\ \A l \in lines : \E i \in Worked : df[i].index = body[l].row
            /\ {body[h].participant : h \in Headers(slack_msg)}
                  = {df[i].assignee : i \in Worked}
            /\ \A g, h \in Headers(slack_msg) :
                  g < h => Rank(body[g].participant) < Rank(body[h].participant)
            /\ \A l \in lines :
                  HeaderOf(slack_msg, l).participant
                      = RowLabelled(df, body[l].row).assignee
            /\ \A k, l \in lines :
                  (k < l /\ HeaderOf(slack_msg, k) = HeaderOf(slack_msg, l)) =>
                      PositionOf(df, body[k].row) < PositionOf(df, body[l].row)

\* The same statement for the sets without a null assignee.
C11_NonNullAssignees ==
    (\A i \in DOMAIN df : df[i].assignee # None) => C11_BlocksSortedLinesInInputOrder

C11_NonNullWitness ==
    /\ pc = "rendered"
    /\ Cardinality(Headers(slack_msg)) = 3
    /\ Len(df) = 3


LinesOfBlock(msg, h) == {l \in IssueLines(msg) : HeaderOf(msg, l) = msg.body[h]}

\* C12: every issue line carries red if its issue is over, else yellow if
\* days_open > sla_days * 0.8, else green; every assignee header carries the
\* most severe indicator among the issue lines of its block; an issue shown
\* yellow is still under, and sla_status depends on days_open and sla_days only.
C12_IndicatorsBySeverity ==
    pc = "rendered" =>
        LET body == slack_msg.body
        IN  /\ \A l \in IssueLines(slack_msg) :
                  LET r == RowLabelled(df, body[l].row)
                  IN  /\ body[l].indicator =
                            (IF r.sla_status = "over" THEN Red
                             ELSE IF 5 * r.days_open > 4 * sla_days THEN Yellow
                             ELSE Green)
                      /\ body[l].indicator = Yellow => r.sla_status = "under"
            /\ \A h \in Headers(slack_msg) :
                  LET shown == {body[l].indicator : l \in LinesOfBlock(slack_msg, h)}
                  IN  body[h].indicator =
                         (IF Red \in shown THEN Red
                          ELSE IF Yellow \in shown THEN Yellow
                          ELSE Green)
            /\ \A i \in DOMAIN df :
                  df[i].sla_status = (IF df[i].days_open > sla_days THEN "over" ELSE "under")

C12_Witness ==
    /\ pc = "rendered"
    /\ \E h \in Headers(slack_msg) :
          /\ slack_msg.body[h].indicator = Red
          /\ \E l \in LinesOfBlock(slack_msg, h) : slack_msg.body[l].indicator = Yellow
          /\ \E l \in LinesOfBlock(slack_msg, h) : slack_msg.body[l].indicator = Red
    /\ Cardinality(Headers(slack_msg)) = 2


\* main passes its totals to the renderer exactly when the area filter
\* removed rows (lines 445-446).
TotalsPassed == Len(df) # totals.total

\* C13: when totals are supplied and their total differs from the number of
\* issues, each of the five summary lines (total, breached, warning, ok,
\* total duplicates) shows an "(of ...)" suffix; otherwise none does.
C13_EverySummaryLineShowsOf ==
    pc = "rendered" =>
        /\ TotalsPassed => \A k \in 1..5 : slack_msg.summary[k].has_of
        /\ ~TotalsPassed => \A k \in 1..5 : ~slack_msg.summary[k].has_of

\* C13 as the code has it: with differing totals the total, breached and ok
\* lines show "(of total)", "(of over_sla)" and "(of under_sla)" of the
\* totals; the warning and total duplicates lines never show a suffix; without
\* totals, or with an equal total, no line shows one.
C13_CountLinesShowOf ==
    pc = "rendered" =>
        LET s == slack_msg.summary
        IN  /\ TotalsPassed =>
                  /\ s[1].has_of /\ s[1].of = totals.total
                  /\ s[2].has_of /\ s[2].of = totals.over_sla
                  /\ s[4].has_of /\ s[4].of = totals.under_sla
            /\ ~TotalsPassed => ~s[1].has_of /\ ~s[2].has_of /\ ~s[4].has_of
            /\ ~s[3].has_of /\ ~s[5].has_of

C13_Witness ==
    /\ pc = "rendered"
    /\ TotalsPassed
    /\ slack_msg.summary[1].has_of
    /\ slack_msg.summary[3].count > 0
    /\ slack_msg.summary[5].count > 0
    /\ ~slack_msg.summary[3].has_of


\* C14: main never invokes generate_slack_message with an empty set of
\* issues, whatever was fetched and whatever statuses and area are selected;
\* the "no issues" line only appears because exclude_under_sla removed
\* every issue.
C14_RendererNeverGetsEmptySet ==
    /\ pc \in {"summarised", "rendered"} => Len(df) > 0
    /\ (pc = "rendered" /\ slack_msg.body = <<NoIssuesLine>>) => exclude_under_sla

\* C14 as the code has it: the renderer is only invoked after a fetch that
\* returned at least one issue; the status and area filters can still leave
\* it an empty set, and it then answers with the "no issues" line, as it does
\* whenever its working set is empty.
C14_RendererNeverGetsEmptyFetch ==
    /\ pc \in {"summarised", "rendered"} => Len(issues) > 0
    /\ pc = "rendered" => (slack_msg.body = <<NoIssuesLine>> <=> Worked = {})
    /\ (pc = "rendered" /\ df = <<>>) => slack_msg.body = <<NoIssuesLine>>

C14_Witness ==
    /\ pc = "rendered"
    /\ Len(issues) = 2
    /\ df = <<>>
    /\ ~exclude_under_sla
    /\ slack_msg.body = <<NoIssuesLine>>


NothingDerived ==
    /\ df = <<>>
    /\ participant_stats = <<>>
    /\ participant_summary = <<>>
    /\ slack_msg = NoDigest

\* C15: a fetch that returns zero issues ends the run in the empty-result
\* state, a fetch that fails ends it in the fetch-failure state, and the two
\* differ; in neither is anything classified, aggregated or rendered, and the
\* run ends there.  Classification only follows a successful fetch that
\* returned at least one issue.
C15_EmptyAndFailureEndTheRun ==
    /\ [](pc = "empty" => (cache.hit /\ cache.value = <<>> /\ issues = <<>>))
    /\ [](pc = "fetch_failed" => ~cache.hit)
    /\ [](pc \in {"empty", "fetch_failed"} => NothingDerived)
    /\ [](pc \in {"loaded", "classified", "filtered", "summarised", "rendered"} =>
            (cache.hit /\ issues = cache.value /\ Len(issues) > 0))
    /\ [][(pc \in {"empty", "fetch_failed"}) =>
            /\ pc' = "idle"
            /\ df' = <<>> /\ participant_stats' = <<>> /\ participant_summary' = <<>>
            /\ slack_msg' = NoDigest]_vars
    /\ [][df' # <<>> => pc \in {"loaded", "classified", "filtered", "summarised",
                                "rendered"}]_vars

C15_Witness ==
    /\ pc = "empty"
    /\ cache.hit
    /\ sla_days # DEFAULT_SLA_DAYS


\* Rows of df with days_open in the closed interval [0.8 * sla_days, sla_days].
InClosedWarningInterval ==
    {i \in DOMAIN df : 5 * df[i].days_open >= 4 * sla_days /\ df[i].days_open <= sla_days}

\* Rows of df with days_open in the half-open interval (0.8 * sla_days, sla_days].
InOpenWarningInterval ==
    {i \in DOMAIN df : 5 * df[i].days_open > 4 * sla_days /\ df[i].days_open <= sla_days}

\* C16: an issue whose days_open lies in the closed interval
\* [0.8 * sla_days, sla_days] is flagged as warning: it is counted in the
\* warning summary line and its line is yellow, also when days_open equals the
\* warning threshold exactly.
C16_ClosedIntervalIsWarning ==
    pc = "rendered" =>
        /\ slack_msg.summary[3].count = Cardinality(InClosedWarningInterval)
        /\ \A l \in IssueLines(slack_msg) :
              PositionOf(df, slack_msg.body[l].row) \in InClosedWarningInterval
                  => slack_msg.body[l].indicator = Yellow

\* C16 as the code has it: the warning tier is the half-open interval
\* 0.8 * sla_days < days_open <= sla_days; an issue whose days_open equals the
\* threshold is not a warning: it is counted as ok and shown green.
C16_AboveThresholdIsWarning ==
    pc = "rendered" =>
        /\ slack_msg.summary[3].count = Cardinality(InOpenWarningInterval)
        /\ \A l \in IssueLines(slack_msg) :
              slack_msg.body[l].indicator = Yellow
                  <=> PositionOf(df, slack_msg.body[l].row) \in InOpenWarningInterval
        /\ \A l \in IssueLines(slack_msg) :
              LET r == RowLabelled(df, slack_msg.body[l].row)
              IN  5 * r.days_open = 4 * sla_days => slack_msg.body[l].indicator = Green

C16_Witness ==
    /\ pc = "rendered"
    /\ \E l \in IssueLines(slack_msg) :
          LET r == RowLabelled(df, slack_msg.body[l].row)
          IN  5 * r.days_open = 4 * sla_days /\ slack_msg.body[l].indicator = Green
    /\ \E l \in IssueLines(slack_msg) :
          LET r == RowLabelled(df, slack_msg.body[l].row)
          IN  r.days_open = sla_days /\ slack_msg.body[l].indicator = Yellow
    /\ slack_msg.summary[3].count = 1
    /\ slack_msg.summary[4].count = 1


\* An upstream scalar that is missing or null.
ValueAbsent(v) == v \in {Absent, None}

\* An upstream object that is missing, null, or lacks a non-null attribute.
ObjectAbsent(obj) == obj \in {Absent, None, EmptyObj, NullAttr}

\* C17: in every record parse_issues returns, summary, status, priority,
\* assignee and area are not null; summary, status and priority are "Unknown"
\* and assignee and area are "Unassigned" whenever the upstream value or
\* object is missing, null, or an object whose attribute is missing or null.
C17_DisplayFieldsNeverNull ==
    fpc = "returned" =>
        \A i \in DOMAIN result :
            LET raw == all_issues[i]
                rec == result[i]
            IN  /\ rec.summary # None /\ rec.status # None /\ rec.priority # None
                /\ rec.assignee # None /\ rec.area # None
                /\ ValueAbsent(raw.summary) => rec.summary = "Unknown"
                /\ ObjectAbsent(raw.status) => rec.status = "Unknown"
                /\ ObjectAbsent(raw.priority) => rec.priority = "Unknown"
                /\ ObjectAbsent(raw.assignee) => rec.assignee = "Unassigned"
                /\ ObjectAbsent(raw.customfield_11401) => rec.area = "Unassigned"

\* What does hold: a missing or null object, or an object without the
\* attribute, gets the default; a present non-null attribute is kept.
C17_MissingObjectsGetDefaults ==
    fpc = "returned" =>
        \A i \in DOMAIN result :
            LET raw == all_issues[i]
                rec == result[i]
                absent == {Absent, None, EmptyObj}
            IN  /\ raw.status \in absent => rec.status = "Unknown"
                /\ raw.priority \in absent => rec.priority = "Unknown"
                /\ raw.assignee \in absent => rec.assignee = "Unassigned"
                /\ raw.customfield_11401 \in absent => rec.area = "Unassigned"
                /\ raw.summary = Absent => rec.summary = ""


RowOf(table, assignee) == table[CHOOSE k \in DOMAIN table : table[k].assignee = assignee]

\* C18: the Quick Summary statistics of main and the "All" summary of
\* render_participant_view, computed from the same classified set, have a row
\* for the same assignees and agree, for every assignee, on the total, the
\* to-do count, the in-progress count, the SLA-violation count and the total
\* duplicates, whatever statuses the issues carry.
C18_AggregationsAgree ==
    pc = "summarised" =>
        /\ {participant_stats[k].assignee : k \in DOMAIN participant_stats}
              = {participant_summary[k].assignee : k \in DOMAIN participant_summary}
        /\ \A k \in DOMAIN participant_stats :
              LET a == participant_stats[k]
                  b == RowOf(participant_summary, a.assignee)
              IN  /\ a.total_assigned = b.total
                  /\ a.to_do = b.todo
                  /\ a.sla_violations = b.sla_violations
                  /\ a.total_duplicates = b.total_duplicates
                  /\ a.in_progress = b.in_progress

\* What does hold: the two agree on everything but the in-progress count.
C18_AgreeButInProgress ==
    pc = "summarised" =>
        /\ {participant_stats[k].assignee : k \in DOMAIN participant_stats}
              = {participant_summary[k].assignee : k \in DOMAIN participant_summary}
        /\ \A k \in DOMAIN participant_stats :
              LET a == participant_stats[k]
                  b == RowOf(participant_summary, a.assignee)
              IN  /\ a.total_assigned = b.total
                  /\ a.to_do = b.todo
                  /\ a.sla_violations = b.sla_violations
                  /\ a.total_duplicates = b.total_duplicates
                  /\ a.in_progress >= b.in_progress

=============================================================================
